---- MODULE Spec2Model ----
(***************************************************************************)
(* Cross-reference linking engine of shabdakosh/generator.py.              *)
(*                                                                         *)
(* A string is a sequence of Unicode code points (Python's str), written   *)
(* as a tuple of numbers: U+0915 KA is 2325, U+093E AA is 2366, U+092E MA  *)
(* is 2350, U+094B O is 2379, U+0964 DANDA is 2404, ' ' is 32, '<' is 60.  *)
(* Offsets are 0-based and spans half-open, as in the source.              *)
(***************************************************************************)
EXTENDS Integers, Sequences, FiniteSets, TLC

Min(a, b) == IF a <= b THEN a ELSE b

Max(a, b) == IF a >= b THEN a ELSE b

\* Python s[a:b] for 0 <= a, clamped to the string
Slice(s, a, b) == SubSeq(s, Max(a, 0) + 1, Min(b, Len(s)))

\* Python s[i], 0-based
At(s, i) == s[i + 1]

StartsWith(s, p) == Len(p) <= Len(s) /\ SubSeq(s, 1, Len(p)) = p

EndsWith(s, p) == Len(p) <= Len(s) /\ SubSeq(s, Len(s) - Len(p) + 1, Len(s)) = p

\* str.find(sub, lo, hi): lowest index in [lo, hi - len(sub)] or -1
Find(s, sub, lo, hi) ==
    LET hits == { i \in lo .. (Min(hi, Len(s)) - Len(sub)) : Slice(s, i, i + Len(sub)) = sub }
    IN  IF hits = {} THEN -1 ELSE CHOOSE i \in hits : \A j \in hits : i <= j

\* str.rfind(c) for a single character: highest index or -1
RFind(s, c) ==
    LET hits == { i \in 0 .. (Len(s) - 1) : At(s, i) = c }
    IN  IF hits = {} THEN -1 ELSE CHOOSE i \in hits : \A j \in hits : i >= j

RECURSIVE Flatten(_)
Flatten(ss) == IF ss = <<>> THEN <<>> ELSE Head(ss) \o Flatten(Tail(ss))

(***************************************************************************)
(* html.escape(text): & < > " ' become entities.                           *)
(***************************************************************************)
EscapeChar(c) ==
    CASE c = 38 -> <<38, 97, 109, 112, 59>>          \* &amp;
      [] c = 60 -> <<38, 108, 116, 59>>              \* &lt;
      [] c = 62 -> <<38, 103, 116, 59>>              \* &gt;
      [] c = 34 -> <<38, 113, 117, 111, 116, 59>>    \* &quot;
      [] c = 39 -> <<38, 35, 120, 50, 55, 59>>       \* &#x27;
      [] OTHER -> <<c>>

html_escape(s) == Flatten([i \in 1 .. Len(s) |-> EscapeChar(s[i])])

(***************************************************************************)
(* slugify / get_filename.  NFKC is the identity on ASCII and on every     *)
(* Devanagari code point used here except U+0958 (QA, 2392), which it      *)
(* decomposes into U+0915 U+093C (2325, 2364).                             *)
(***************************************************************************)
\* the class [\u0900-\u097F]
IsScript(c) == c >= 2304 /\ c <= 2431

\* \w under re.UNICODE, on the alphabet of the model: letters, digits, '_'.
\* The combining signs of the block (Mn/Mc) and the dandas (Po) are not \w,
\* but the class [^\w\-\u0900-\u097F] keeps the whole block anyway.
IsWordChar(c) ==
    \/ c \in 48 .. 57
    \/ c \in 65 .. 90
    \/ c \in 97 .. 122
    \/ c = 95

RECURSIVE LStrip(_, _)
LStrip(s, drop) == IF s # <<>> /\ Head(s) \in drop THEN LStrip(Tail(s), drop) ELSE s

RECURSIVE RStrip(_, _)
RStrip(s, drop) ==
    IF s # <<>> /\ s[Len(s)] \in drop THEN RStrip(SubSeq(s, 1, Len(s) - 1), drop) ELSE s

Strip(s, drop) == RStrip(LStrip(s, drop), drop)

Whitespace == {9, 10, 32}

NFKC(s) == Flatten([i \in 1 .. Len(s) |-> IF s[i] = 2392 THEN <<2325, 2364>> ELSE <<s[i]>>])

\* re.sub(r"-{2,}", "-", s)
RECURSIVE CollapseHyphens(_)
CollapseHyphens(s) ==
    IF Len(s) < 2 THEN s
    ELSE IF s[1] = 45 /\ s[2] = 45 THEN CollapseHyphens(Tail(s))
    ELSE <<s[1]>> \o CollapseHyphens(Tail(s))

slugify(word) ==
    LET n1 == NFKC(Strip(word, Whitespace))
        n2 == [i \in 1 .. Len(n1) |-> IF n1[i] \in {32, 47} THEN 45 ELSE n1[i]]
        n3 == SelectSeq(n2, LAMBDA c : IsWordChar(c) \/ c = 45 \/ IsScript(c))
        n4 == Strip(CollapseHyphens(n3), {45})
    IN  IF n4 = <<>> THEN <<101, 110, 116, 114, 121>> ELSE n4     \* "entry"

get_filename(word) == slugify(word) \o <<46, 104, 116, 109, 108>>   \* ".html"

\* the suffix table of find_root_word without the genitive suffix U+0915 U+094B
suffixes_without_ko ==
    << <<2361, 2352, 2370>>,
       <<2354, 2375>>,
       <<2354, 2366, 2312>>,
       <<2350, 2366>>,
       <<2348, 2366, 2335>>,
       <<2360, 2350, 2381, 2350>>,
       <<2360, 2305, 2327>>,
       <<2348, 2367, 2344, 2366>>,
       <<2325, 2366>>,
       <<2342, 2375, 2326, 2367>>,
       <<2340, 2367, 2352>> >>

(***************************************************************************)
(* find_root_word                                                          *)
(***************************************************************************)
\* HARU, LE, KO, LAAII, MAA, BAATA, SAMMA, SANGA, BINAA, KAA, DEKHI, TIRA
suffixes ==
    << <<2361, 2352, 2370>>,
       <<2354, 2375>>,
       <<2325, 2379>>,
       <<2354, 2366, 2312>>,
       <<2350, 2366>>,
       <<2348, 2366, 2335>>,
       <<2360, 2350, 2381, 2350>>,
       <<2360, 2305, 2327>>,
       <<2348, 2367, 2344, 2366>>,
       <<2325, 2366>>,
       <<2342, 2375, 2326, 2367>>,
       <<2340, 2367, 2352>> >>

\* insert x into a sequence sorted by descending length, after its equals
RECURSIVE InsertByLenDesc(_, _)
InsertByLenDesc(sorted, x) ==
    IF sorted = <<>> THEN <<x>>
    ELSE IF Len(Head(sorted)) >= Len(x)
         THEN <<Head(sorted)>> \o InsertByLenDesc(Tail(sorted), x)
         ELSE <<x>> \o sorted

\* sorted(seq, key=len, reverse=True): stable
RECURSIVE SortedByLenDesc(_)
SortedByLenDesc(seq) ==
    IF seq = <<>> THEN <<>>
    ELSE InsertByLenDesc(SortedByLenDesc(SubSeq(seq, 1, Len(seq) - 1)), seq[Len(seq)])

\* the loop of find_root_word over the sorted suffixes, from position i
RECURSIVE RootFrom(_, _, _)
RootFrom(word, sorted, i) ==
    IF i > Len(sorted) THEN word
    ELSE LET suffix == sorted[i]
             root == SubSeq(word, 1, Len(word) - Len(suffix))
         IN  IF EndsWith(word, suffix) /\ Len(word) > Len(suffix) + 2 /\ Len(root) >= 3
             THEN root
             ELSE RootFrom(word, sorted, i + 1)

\* find_root_word with both length thresholds one too low
RECURSIVE RootFromShort(_, _, _)
RootFromShort(word, sorted, i) ==
    IF i > Len(sorted) THEN word
    ELSE LET suffix == sorted[i]
             root == SubSeq(word, 1, Len(word) - Len(suffix))
         IN  IF EndsWith(word, suffix) /\ Len(word) > Len(suffix) + 1 /\ Len(root) >= 2
             THEN root
             ELSE RootFromShort(word, sorted, i + 1)

find_root_word_short(word) == RootFromShort(word, SortedByLenDesc(suffixes), 1)

find_root_word(word) == RootFrom(word, SortedByLenDesc(suffixes), 1)

(***************************************************************************)
(* link_words_in_text: the candidate scan                                  *)
(***************************************************************************)
\* KO, LE, LAAII, MAA, BAATA, SAMMA, SANGA, KAA, DEKHI, TIRA, HARU, BINAA
known_suffixes ==
    << <<2325, 2379>>,
       <<2354, 2375>>,
       <<2354, 2366, 2312>>,
       <<2350, 2366>>,
       <<2348, 2366, 2335>>,
       <<2360, 2350, 2381, 2350>>,
       <<2360, 2305, 2327>>,
       <<2325, 2366>>,
       <<2342, 2375, 2326, 2367>>,
       <<2340, 2367, 2352>>,
       <<2361, 2352, 2370>>,
       <<2348, 2367, 2344, 2366>> >>

\* U+0964 U+0965 . , ; : ! ? ( ) [ ] { } " ' U+2014 U+2013
punctuation_chars ==
    {2404, 2405, 46, 44, 59, 58, 33, 63, 40, 41, 91, 93, 123, 125, 34, 39, 8212, 8211}

\* space \n \t . , ; : ! ? ( ) [ ] { } " ' U+2014 U+2013 U+0964 U+0965
boundary_chars ==
    {32, 10, 9, 46, 44, 59, 58, 33, 63, 40, 41, 91, 93, 123, 125, 34, 39, 8212, 8211, 2404, 2405}

\* end of the maximal run of script characters that starts at i
RECURSIVE RunEnd(_, _)
RunEnd(s, i) == IF i < Len(s) /\ IsScript(At(s, i)) THEN RunEnd(s, i + 1) ELSE i

\* re.finditer(r'[\u0900-\u097F]{3,}', s): the matches from offset i on
RECURSIVE MatchesFrom(_, _)
MatchesFrom(s, i) ==
    IF i >= Len(s) THEN <<>>
    ELSE IF ~IsScript(At(s, i)) THEN MatchesFrom(s, i + 1)
    ELSE LET e == RunEnd(s, i)
         IN  IF e - i >= 3
             THEN <<[start |-> i, end |-> e]>> \o MatchesFrom(s, e)
             ELSE MatchesFrom(s, e)

all_matches(s) == MatchesFrom(s, 0)

\* full_word.strip(punctuation_chars), then re.sub of the embedded punctuation
CleanedWord(full_word) ==
    SelectSeq(Strip(full_word, punctuation_chars), LAMBDA c : c \notin punctuation_chars)

\* words_to_link is a dict in insertion order: a sequence of entries
HasKey(wtl, word, s, e) ==
    \E i \in 1 .. Len(wtl) : wtl[i].word = word /\ wtl[i].start = s /\ wtl[i].end = e

\* words_to_link[key] = value
SetKey(wtl, entry) ==
    IF HasKey(wtl, entry.word, entry.start, entry.end)
    THEN [i \in 1 .. Len(wtl) |->
            IF wtl[i].word = entry.word /\ wtl[i].start = entry.start /\ wtl[i].end = entry.end
            THEN entry ELSE wtl[i]]
    ELSE Append(wtl, entry)

\* if key not in words_to_link: words_to_link[key] = value
SetKeyIfAbsent(wtl, entry) ==
    IF HasKey(wtl, entry.word, entry.start, entry.end) THEN wtl ELSE Append(wtl, entry)

Entry(word, s, filename, is_root) ==
    [word |-> word, start |-> s, end |-> s + Len(word), filename |-> filename,
     display_word |-> word, is_root_link |-> is_root]

\* Strategy 3: index of the first known suffix that gives an indexed prefix, or 0
PrefixSuffixFrom(cleaned, idx, i) ==
    LET ok == { j \in i .. Len(known_suffixes) :
                  /\ EndsWith(cleaned, known_suffixes[j])
                  /\ Len(cleaned) - Len(known_suffixes[j]) >= 3
                  /\ SubSeq(cleaned, 1, Len(cleaned) - Len(known_suffixes[j])) \in DOMAIN idx }
    IN  IF ok = {} THEN 0 ELSE CHOOSE j \in ok : \A k \in ok : j <= k

\* Resolution that tries the root before the exact match
ResolutionRootFirst(cleaned, idx) ==
    LET root == find_root_word(cleaned)
        j == PrefixSuffixFrom(cleaned, idx, 1)
    IN  IF root # cleaned /\ root \in DOMAIN idx THEN [kind |-> "root", word |-> root]
        ELSE IF cleaned \in DOMAIN idx THEN [kind |-> "exact", word |-> cleaned]
        ELSE IF Len(cleaned) > 4 /\ j # 0
             THEN [kind |-> "prefix",
                   word |-> SubSeq(cleaned, 1, Len(cleaned) - Len(known_suffixes[j]))]
        ELSE [kind |-> "none", word |-> <<>>]

\* which strategy resolves a cleaned candidate: "exact", "root", "prefix" or "none"
Resolution(cleaned, idx) ==
    LET root == find_root_word(cleaned)
        j == PrefixSuffixFrom(cleaned, idx, 1)
    IN  IF cleaned \in DOMAIN idx THEN [kind |-> "exact", word |-> cleaned]
        ELSE IF root # cleaned /\ root \in DOMAIN idx THEN [kind |-> "root", word |-> root]
        ELSE IF Len(cleaned) > 4 /\ j # 0
             THEN [kind |-> "prefix",
                   word |-> SubSeq(cleaned, 1, Len(cleaned) - Len(known_suffixes[j]))]
        ELSE [kind |-> "none", word |-> <<>>]

\* one iteration of the scan loop
ScanMatch(wtl, escaped, match, idx, cur) ==
    LET full_word == Slice(escaped, match.start, match.end)
        cleaned_word == CleanedWord(full_word)
        stripped_from_start == Len(full_word) - Len(LStrip(full_word, punctuation_chars))
        adjusted_start == match.start + stripped_from_start
        res == Resolution(cleaned_word, idx)
    IN  IF Len(cleaned_word) < 3 \/ cleaned_word = cur THEN wtl
        ELSE IF res.kind = "exact"
             THEN SetKey(wtl, Entry(res.word, adjusted_start, idx[res.word], FALSE))
        ELSE IF res.kind \in {"root", "prefix"}
             THEN SetKeyIfAbsent(wtl, Entry(res.word, adjusted_start, idx[res.word], TRUE))
        ELSE wtl

RECURSIVE ScanFrom(_, _, _, _, _, _)
ScanFrom(wtl, escaped, matches, i, idx, cur) ==
    IF i > Len(matches) THEN wtl
    ELSE ScanFrom(ScanMatch(wtl, escaped, matches[i], idx, cur), escaped, matches, i + 1, idx, cur)

\* the dict words_to_link after the scan loop
ScanAll(escaped, idx, cur) == ScanFrom(<<>>, escaped, all_matches(escaped), 1, idx, cur)

(***************************************************************************)
(* link_words_in_text: ordering and the application loop                   *)
(***************************************************************************)
\* insert x into a sequence sorted by (start, -len(word)), after its equals
RECURSIVE InsertByPos(_, _)
InsertByPos(sorted, x) ==
    IF sorted = <<>> THEN <<x>>
    ELSE LET h == Head(sorted)
         IN  IF h.start < x.start \/ (h.start = x.start /\ Len(h.word) >= Len(x.word))
             THEN <<h>> \o InsertByPos(Tail(sorted), x)
             ELSE <<x>> \o sorted

RECURSIVE SortedByPos(_)
SortedByPos(seq) ==
    IF seq = <<>> THEN <<>>
    ELSE InsertByPos(SortedByPos(SubSeq(seq, 1, Len(seq) - 1)), seq[Len(seq)])

Reverse(seq) == [i \in 1 .. Len(seq) |-> seq[Len(seq) + 1 - i]]

\* word_list after the sort and the reverse
WordList(wtl) == Reverse(SortedByPos(wtl))

\* '<a href="./'
AnchorHead == <<60, 97, 32, 104, 114, 101, 102, 61, 34, 46, 47>>

\* '" style="color: #0f62fe; text-decoration: underline;">'
AnchorStyle ==
    <<34, 32, 115, 116, 121, 108, 101, 61, 34, 99, 111, 108, 111, 114, 58, 32, 35, 48,
      102, 54, 50, 102, 101, 59, 32, 116, 101, 120, 116, 45, 100, 101, 99, 111, 114, 97,
      116, 105, 111, 110, 58, 32, 117, 110, 100, 101, 114, 108, 105, 110, 101, 59, 34, 62>>

\* '</a>'
AnchorTail == <<60, 47, 97, 62>>

link_html(filename, word) == AnchorHead \o filename \o AnchorStyle \o word \o AnchorTail

\* the re-validation: where the candidate is in the current text, if anywhere
Locate(lt, cand) ==
    IF Slice(lt, cand.start, cand.end) # cand.word
    THEN LET search_start == Max(0, cand.start - 10)
             search_end == Min(Len(lt), cand.end + 10)
             pos == Find(lt, cand.word, search_start, search_end)
         IN  [found |-> pos # -1, start |-> pos, end |-> pos + Len(cand.word),
              relocated |-> TRUE]
    ELSE [found |-> TRUE, start |-> cand.start, end |-> cand.end, relocated |-> FALSE]

\* last_open > last_close
InsideTag(lt, start_pos) ==
    LET text_before == Slice(lt, 0, start_pos)
    IN  RFind(text_before, 60) > RFind(text_before, 62)

BoundaryBefore(lt, start_pos) ==
    LET before_char == IF start_pos > 0 THEN At(lt, start_pos - 1) ELSE 32
    IN  ~(start_pos > 0 /\ before_char \notin boundary_chars)

StartsWithKnownSuffix(text_after) ==
    \E i \in 1 .. Len(known_suffixes) : StartsWith(text_after, known_suffixes[i])

\* BoundaryAfter without the suffix relaxation for root links
BoundaryAfterStrict(lt, end_pos, is_root_link) ==
    LET after_char == IF end_pos < Len(lt) THEN At(lt, end_pos) ELSE 32
    IN  IF end_pos < Len(lt) THEN after_char \in boundary_chars ELSE TRUE

\* BoundaryAfter with the character after the span checked for root links only
BoundaryAfterRootOnly(lt, end_pos, is_root_link) ==
    LET after_char == IF end_pos < Len(lt) THEN At(lt, end_pos) ELSE 32
    IN  IF end_pos < Len(lt) /\ is_root_link
        THEN after_char \in boundary_chars
             \/ StartsWithKnownSuffix(Slice(lt, end_pos, Len(lt)))
        ELSE TRUE

\* BoundaryAfter with the suffix relaxation granted to every link, exact ones too
BoundaryAfterRelaxed(lt, end_pos, is_root_link) ==
    LET after_char == IF end_pos < Len(lt) THEN At(lt, end_pos) ELSE 32
    IN  IF end_pos < Len(lt)
        THEN after_char \in boundary_chars
             \/ StartsWithKnownSuffix(Slice(lt, end_pos, Len(lt)))
        ELSE TRUE

BoundaryAfter(lt, end_pos, is_root_link) ==
    LET after_char == IF end_pos < Len(lt) THEN At(lt, end_pos) ELSE 32
    IN  IF end_pos < Len(lt)
        THEN IF is_root_link
             THEN after_char \in boundary_chars
                  \/ StartsWithKnownSuffix(Slice(lt, end_pos, Len(lt)))
             ELSE after_char \in boundary_chars
        ELSE TRUE

Overlaps(positions, start_pos, end_pos) ==
    \E i \in 1 .. Len(positions) :
        \/ (start_pos >= positions[i][1] /\ start_pos < positions[i][2])
        \/ (end_pos > positions[i][1] /\ end_pos <= positions[i][2])

\* Decision with the safety checks left out for a relocated candidate
DecisionUncheckedRelocation(lt, positions, cand) ==
    LET loc == Locate(lt, cand)
        at(o) == [outcome |-> o, start |-> loc.start, end |-> loc.end,
                  relocated |-> loc.relocated]
    IN  IF ~loc.found THEN at("not_found")
        ELSE IF loc.relocated THEN at("link")
        ELSE IF InsideTag(lt, loc.start) THEN at("in_tag")
        ELSE IF ~BoundaryBefore(lt, loc.start) THEN at("before")
        ELSE IF ~BoundaryAfter(lt, loc.end, cand.is_root_link) THEN at("after")
        ELSE IF Overlaps(positions, loc.start, loc.end) THEN at("overlap")
        ELSE at("link")

\* what one iteration of the application loop decides for a candidate
Decision(lt, positions, cand) ==
    LET loc == Locate(lt, cand)
        at(o) == [outcome |-> o, start |-> loc.start, end |-> loc.end,
                  relocated |-> loc.relocated]
    IN  IF ~loc.found THEN at("not_found")
        ELSE IF InsideTag(lt, loc.start) THEN at("in_tag")
        ELSE IF ~BoundaryBefore(lt, loc.start) THEN at("before")
        ELSE IF ~BoundaryAfter(lt, loc.end, cand.is_root_link) THEN at("after")
        ELSE IF Overlaps(positions, loc.start, loc.end) THEN at("overlap")
        ELSE at("link")

\* Splice that cuts at the candidate's recorded end offset, not at the relocated one
SpliceRecordedEnd(lt, start_pos, end_pos, cand) ==
    Slice(lt, 0, start_pos) \o link_html(cand.filename, cand.word) \o Slice(lt, cand.end, Len(lt))

\* linked_text[:start_pos] + link_html + linked_text[end_pos:]
Splice(lt, start_pos, end_pos, cand) ==
    Slice(lt, 0, start_pos) \o link_html(cand.filename, cand.word) \o Slice(lt, end_pos, Len(lt))

\* ApplyOne that records the span of a rejected candidate as if it had been linked
ApplyOneRecordingRejected(st, cand) ==
    LET d == Decision(st.linked_text, st.linked_positions, cand)
    IN  IF d.outcome = "link"
        THEN [linked_text |-> Splice(st.linked_text, d.start, d.end, cand),
              linked_positions |->
                  Append(st.linked_positions,
                         <<d.start, d.start + Len(link_html(cand.filename, cand.word))>>)]
        ELSE IF d.outcome = "not_found" THEN st
        ELSE [st EXCEPT !.linked_positions = Append(@, <<d.start, d.end>>)]

\* one iteration of the application loop on (linked_text, linked_positions)
ApplyOne(st, cand) ==
    LET d == Decision(st.linked_text, st.linked_positions, cand)
    IN  IF d.outcome = "link"
        THEN [linked_text |-> Splice(st.linked_text, d.start, d.end, cand),
              linked_positions |->
                  Append(st.linked_positions,
                         <<d.start, d.start + Len(link_html(cand.filename, cand.word))>>)]
        ELSE st

RECURSIVE ApplyFrom(_, _, _)
ApplyFrom(st, word_list, i) ==
    IF i > Len(word_list) THEN st ELSE ApplyFrom(ApplyOne(st, word_list[i]), word_list, i + 1)

\* link_words_in_text as a function of its arguments
link_words_in_text(text, idx, cur) ==
    IF text = <<>> \/ DOMAIN idx = {} THEN (IF text # <<>> THEN html_escape(text) ELSE text)
    ELSE LET escaped_text == html_escape(text)
             wtl == ScanAll(escaped_text, idx, cur)
         IN  IF wtl = <<>> THEN escaped_text
             ELSE ApplyFrom([linked_text |-> escaped_text, linked_positions |-> <<>>],
                            WordList(wtl), 1).linked_text

(***************************************************************************)
(* One call of link_words_in_text as a state machine.                      *)
(***************************************************************************)
VARIABLES
    text,               \* argument: the sense text
    word_to_filename,   \* argument: the index, a function key -> filename
    current_word,       \* argument: the word being defined
    pc,                 \* "start", "scan", "apply", "done"
    escaped_text,
    matches,            \* all_matches
    mi,                 \* position of the scan loop in matches
    words_to_link,
    word_list,
    wi,                 \* position of the application loop in word_list
    linked_text,
    linked_positions,
    result,             \* the returned string
    run,                \* 1, or 2 when the result has been linked again
    origin,             \* history: for each character of linked_text its offset in
                        \* escaped_text, or -1 for inserted markup
    spans,              \* history: the inserted anchors, in current coordinates
    decisions,          \* history: one record per iteration of the application loop
    words_data,         \* generate_word_pages: the entry list
    gpc,                \* generate_word_pages: "idle", "index", "tasks", "await", "done"
    ei,                 \* position of the index loop / the task loop in words_data
    tasks,              \* the page tasks created, in creation order
    metadata,
    generated_links,    \* results in completion order
    registrations       \* history: every assignment word_to_filename[word] = filename

PageVars == <<words_data, gpc, ei, tasks, metadata, generated_links, registrations>>

vars == <<text, word_to_filename, current_word, pc, escaped_text, matches, mi,
          words_to_link, word_list, wi, linked_text, linked_positions, result, run,
          origin, spans, decisions, PageVars>>

\* the text tokens of the bounded inputs
KAAM == <<2325, 2366, 2350>>            \* U+0915 U+093E U+092E

KO == <<2325, 2379>>                    \* U+0915 U+094B, a suffix

KAAMKO == KAAM \o KO

KA_DANDA_M == <<2325, 2366, 2404, 2350>>   \* KAAM with a danda inside

Tokens == {KAAM, KO, <<32>>, KA_DANDA_M, <<2404>>, <<60>>}

MaxTokens == 5

Texts == { Flatten(ts) : ts \in UNION { [1 .. n -> Tokens] : n \in 0 .. MaxTokens } }

IndexOf(keys) == [k \in keys |-> get_filename(k)]

KeySets == { {KAAM}, {KAAM, KAAMKO, KO} }

CurrentWords == { KAAM, <<2327, 2352, 2381, 2344, 2369>> }    \* the second: GARNU (U+0917 U+0930 U+094D U+0928 U+0941)

Fresh ==
    /\ pc = "start"
    /\ escaped_text = <<>>
    /\ matches = <<>>
    /\ mi = 1
    /\ words_to_link = <<>>
    /\ word_list = <<>>
    /\ wi = 1
    /\ linked_text = <<>>
    /\ linked_positions = <<>>
    /\ result = <<>>
    /\ origin = <<>>
    /\ spans = <<>>
    /\ decisions = <<>>

\* no run of generate_word_pages: link_words_in_text called on its own
NoPages ==
    /\ words_data = <<>>
    /\ gpc = "idle"
    /\ ei = 1
    /\ tasks = <<>>
    /\ metadata = <<>>
    /\ generated_links = <<>>
    /\ registrations = <<>>

Init ==
    /\ text \in Texts
    /\ word_to_filename \in { IndexOf(K) : K \in KeySets }
    /\ current_word \in CurrentWords
    /\ run = 1
    /\ Fresh
    /\ NoPages

Args == <<text, word_to_filename, current_word, run>>

\* if not text or not word_to_filename: return html.escape(text) if text else text
EarlyReturn ==
    /\ pc = "start"
    /\ text = <<>> \/ DOMAIN word_to_filename = {}
    /\ result' = (IF text # <<>> THEN html_escape(text) ELSE text)
    /\ pc' = "done"
    /\ UNCHANGED <<PageVars, Args, escaped_text, matches, mi, words_to_link, word_list, wi,
                   linked_text, linked_positions, origin, spans, decisions>>

\* escaped_text = html.escape(text); all_matches = list(re.finditer(...))
Start ==
    /\ pc = "start"
    /\ ~(text = <<>> \/ DOMAIN word_to_filename = {})
    /\ escaped_text' = html_escape(text)
    /\ matches' = all_matches(escaped_text')
    /\ mi' = 1
    /\ words_to_link' = <<>>
    /\ pc' = "scan"
    /\ UNCHANGED <<PageVars, Args, word_list, wi, linked_text, linked_positions, result,
                   origin, spans, decisions>>

\* one iteration of: for match in all_matches
Scan ==
    /\ pc = "scan"
    /\ mi <= Len(matches)
    /\ words_to_link' =
           ScanMatch(words_to_link, escaped_text, matches[mi], word_to_filename, current_word)
    /\ mi' = mi + 1
    /\ UNCHANGED <<PageVars, Args, pc, escaped_text, matches, word_list, wi, linked_text,
                   linked_positions, result, origin, spans, decisions>>

\* if not words_to_link: return escaped_text
NoCandidates ==
    /\ pc = "scan"
    /\ mi > Len(matches)
    /\ words_to_link = <<>>
    /\ result' = escaped_text
    /\ pc' = "done"
    /\ UNCHANGED <<PageVars, Args, escaped_text, matches, mi, words_to_link, word_list, wi,
                   linked_text, linked_positions, origin, spans, decisions>>

\* word_list built, sorted and reversed; linked_text = escaped_text
Sort ==
    /\ pc = "scan"
    /\ mi > Len(matches)
    /\ words_to_link # <<>>
    /\ word_list' = WordList(words_to_link)
    /\ wi' = 1
    /\ linked_text' = escaped_text
    /\ linked_positions' = <<>>
    /\ origin' = [k \in 1 .. Len(escaped_text) |-> k - 1]
    /\ spans' = <<>>
    /\ decisions' = <<>>
    /\ pc' = "apply"
    /\ UNCHANGED <<PageVars, Args, escaped_text, matches, mi, words_to_link, result>>

Markup(n) == [k \in 1 .. n |-> -1]

\* the anchors already inserted, moved by a splice of [s, e) that grows the text by delta
Shifted(sp, s, e, delta) ==
    [k \in 1 .. Len(sp) |->
        [start |-> IF sp[k].start >= e THEN sp[k].start + delta ELSE sp[k].start,
         end |-> IF sp[k].end > s THEN sp[k].end + delta ELSE sp[k].end]]

\* one iteration of: for word, start_pos, end_pos, ... in word_list
Apply ==
    /\ pc = "apply"
    /\ wi <= Len(word_list)
    /\ LET cand == word_list[wi]
           d == Decision(linked_text, linked_positions, cand)
           st == ApplyOne([linked_text |-> linked_text,
                           linked_positions |-> linked_positions], cand)
           link == link_html(cand.filename, cand.word)
           open == Len(link) - Len(cand.word) - Len(AnchorTail)
       IN  /\ linked_text' = st.linked_text
           /\ linked_positions' = st.linked_positions
           /\ decisions' = Append(decisions,
                  [cand |-> cand, outcome |-> d.outcome, start |-> d.start, end |-> d.end,
                   relocated |-> d.relocated, text_was |-> linked_text,
                   positions_were |-> linked_positions,
                   from |-> IF d.outcome = "link" THEN Slice(origin, d.start, d.end)
                            ELSE <<>>])
           /\ IF d.outcome = "link"
              THEN /\ origin' = Slice(origin, 0, d.start) \o Markup(open)
                                  \o Slice(origin, d.start, d.end) \o Markup(Len(AnchorTail))
                                  \o Slice(origin, d.end, Len(origin))
                   /\ spans' = Append(Shifted(spans, d.start, d.end,
                                              Len(link) - (d.end - d.start)),
                                      [start |-> d.start, end |-> d.start + Len(link)])
              ELSE UNCHANGED <<origin, spans>>
    /\ wi' = wi + 1
    /\ UNCHANGED <<PageVars, Args, pc, escaped_text, matches, mi, words_to_link, word_list, result>>

\* return linked_text
Return ==
    /\ pc = "apply"
    /\ wi > Len(word_list)
    /\ result' = linked_text
    /\ pc' = "done"
    /\ UNCHANGED <<PageVars, Args, escaped_text, matches, mi, words_to_link, word_list, wi,
                   linked_text, linked_positions, origin, spans, decisions>>

Next == EarlyReturn \/ Start \/ Scan \/ NoCandidates \/ Sort \/ Apply \/ Return

Spec == Init /\ [][Next]_vars

(***************************************************************************)
(* Properties of one call                                                  *)
(***************************************************************************)
Linked == { k \in 1 .. Len(decisions) : decisions[k].outcome = "link" }

\* the text the caller would get if the loop stopped now
Current == IF pc = "done" THEN result ELSE linked_text

\* s without its markup: every '<' ... '>' stretch removed
RECURSIVE StripTags(_, _)
StripTags(s, inside) ==
    IF s = <<>> THEN <<>>
    ELSE IF inside THEN StripTags(Tail(s), Head(s) # 62)
    ELSE IF Head(s) = 60 THEN StripTags(Tail(s), TRUE)
    ELSE <<Head(s)>> \o StripTags(Tail(s), FALSE)

\* a '<' with no '>' after it
OpenTag(prefix) ==
    \E a \in 1 .. Len(prefix) :
        prefix[a] = 60 /\ \A b \in (a + 1) .. Len(prefix) : prefix[b] # 62

\* C1: the inserted anchors are pairwise disjoint in the coordinates of the current
\* text; each is one well-formed element (no second '<' before its closing tag), so
\* none is nested in another's href or anchor text. Holds after every splice.
C1_NoOverlap ==
    pc \in {"apply", "done"} =>
        /\ \A p, q \in 1 .. Len(spans) :
               p # q => spans[p].end <= spans[q].start \/ spans[q].end <= spans[p].start
        /\ \A p \in 1 .. Len(spans) :
               LET a == Slice(linked_text, spans[p].start, spans[p].end)
               IN  /\ StartsWith(a, AnchorHead)
                   /\ EndsWith(a, AnchorTail)
                   /\ \A k \in 2 .. (Len(a) - Len(AnchorTail)) : a[k] # 60

C1_Witness ==
    /\ pc = "done"
    /\ Len(spans) >= 2
    /\ \E k \in Linked : decisions[k].relocated

\* C2: stripping the inserted anchor tags from the linked text gives html.escape(text),
\* after every splice and for the returned string.
C2_RoundTrip ==
    pc \in {"apply", "done"} => StripTags(Current, FALSE) = html_escape(text)

C2_Witness ==
    /\ pc = "done"
    /\ \E k \in Linked : decisions[k].relocated
    /\ \E k \in 1 .. Len(text) : text[k] = 60

\* C3: no inserted anchor points to the page of the word being defined.
C3_NoSelfLink ==
    \A k \in Linked : decisions[k].cand.filename # get_filename(current_word)

\* the scanned runs whose cleaned text is the current word
SelfRuns ==
    { k \in 1 .. Len(matches) :
        CleanedWord(Slice(escaped_text, matches[k].start, matches[k].end)) = current_word }

\* C4: every occurrence of a run whose cleaned text equals the current word stays
\* plain text: no accepted link wraps a character of it.
C4_SelfOccurrencePlain ==
    \A k \in Linked : \A r \in SelfRuns : \A j \in 1 .. Len(decisions[k].from) :
        ~(decisions[k].from[j] >= matches[r].start /\ decisions[k].from[j] < matches[r].end)

\* C6: at every splice the span start is not inside an open tag.
C6_TagSafe ==
    \A k \in Linked : ~OpenTag(Slice(decisions[k].text_was, 0, decisions[k].start))

C6_Witness ==
    /\ \E k \in 1 .. Len(decisions) : decisions[k].outcome = "in_tag"
    /\ Linked # {}

\* C7: every anchor wraps at least 3 characters and targets an index key of at least
\* 3 characters; no candidate shorter than 3 is ever recorded.
C7_MinLength ==
    /\ \A k \in Linked :
           /\ decisions[k].end - decisions[k].start >= 3
           /\ decisions[k].cand.word \in DOMAIN word_to_filename
           /\ Len(decisions[k].cand.word) >= 3
    /\ \A k \in 1 .. Len(words_to_link) : Len(words_to_link[k].word) >= 3

C7_Witness ==
    /\ pc = "done"
    /\ KO \in DOMAIN word_to_filename
    /\ \E k \in 1 .. Len(matches) :
           Slice(escaped_text, matches[k].start, matches[k].end) = KO \o KO
    /\ \E k \in Linked : decisions[k].end - decisions[k].start = 3

(***************************************************************************)
(* The result linked a second time with the same index and current word.   *)
(***************************************************************************)
Rerun ==
    /\ pc = "done"
    /\ run = 1
    /\ text' = result
    /\ run' = 2
    /\ pc' = "start"
    /\ escaped_text' = <<>>
    /\ matches' = <<>>
    /\ mi' = 1
    /\ words_to_link' = <<>>
    /\ word_list' = <<>>
    /\ wi' = 1
    /\ linked_text' = <<>>
    /\ linked_positions' = <<>>
    /\ result' = <<>>
    /\ origin' = <<>>
    /\ spans' = <<>>
    /\ decisions' = <<>>
    /\ UNCHANGED <<PageVars, word_to_filename, current_word>>

NextRerun == Next \/ Rerun

SpecRerun == Init /\ [][NextRerun]_vars

\* html.escape('<a href=') and html.escape('</a>')
EscapedHead == html_escape(SubSeq(AnchorHead, 1, 8))

EscapedTail == html_escape(AnchorTail)

\* highest offset at which sub occurs in s, or -1
RFindSeq(s, sub) ==
    LET hits == { a \in 0 .. (Len(s) - Len(sub)) : Slice(s, a, a + Len(sub)) = sub }
    IN  IF hits = {} THEN -1 ELSE CHOOSE a \in hits : \A b \in hits : a >= b

\* the prefix ends inside an anchor element of the first run (now escaped)
InsideOldAnchor(prefix) == RFindSeq(prefix, EscapedHead) > RFindSeq(prefix, EscapedTail)

\* C8: the second run inserts no anchor inside the href or the anchor text of an
\* anchor of the first run.
C8_NoRelink ==
    run = 2 =>
        \A k \in Linked :
            ~InsideOldAnchor(Slice(decisions[k].text_was, 0, decisions[k].start))

C8_Witness ==
    /\ run = 2
    /\ pc = "done"
    /\ RFindSeq(escaped_text, EscapedHead) # -1
    /\ \E k \in 1 .. Len(decisions) :
           /\ decisions[k].outcome = "after"
           /\ InsideOldAnchor(Slice(decisions[k].text_was, 0, decisions[k].start))

(***************************************************************************)
(* Root suffix linking: the text R+S, space, R, space, other word.         *)
(***************************************************************************)
GARNU == <<2327, 2352, 2381, 2344, 2369>>          \* U+0917 U+0930 U+094D U+0928 U+0941

RootKeys == {KAAM, KAAMKO, KA_DANDA_M}

OtherWords == {GARNU, KAAM, KA_DANDA_M \o KO}

Suffixes == { suffixes[k] : k \in 1 .. Len(suffixes) }

RootText(R, S, O) == R \o S \o <<32>> \o R \o <<32>> \o O

InitRoot ==
    /\ \E R \in RootKeys, S \in Suffixes, O \in OtherWords :
           /\ text = RootText(R, S, O)
           /\ word_to_filename \in { IndexOf({R} \cup more) : more \in {{}, {R \o S}, {GARNU}} }
    /\ current_word \in {GARNU, KAAM}
    /\ run = 1
    /\ Fresh
    /\ NoPages

NextRoot == Start \/ Scan \/ NoCandidates \/ Sort \/ Apply \/ Return

SpecRoot == InitRoot /\ [][NextRoot]_vars

\* the result links R inside R+S (S left after the anchor) and the bare R
RootLinked(R, S) ==
    StartsWith(result, link_html(word_to_filename[R], R) \o S \o <<32>>
                          \o link_html(word_to_filename[R], R) \o <<32>>)

NoPunctuation(w) == \A k \in 1 .. Len(w) : w[k] \notin punctuation_chars

RECURSIVE SplitFrom(_, _, _)
SplitFrom(s, sep, piece) ==
    IF s = <<>> THEN <<piece>>
    ELSE IF Head(s) = sep THEN <<piece>> \o SplitFrom(Tail(s), sep, <<>>)
    ELSE SplitFrom(Tail(s), sep, Append(piece, Head(s)))

\* str.split(sep) for a one-character separator
Split(s, sep) == SplitFrom(s, sep, <<>>)

RECURSIVE Join(_, _)
Join(parts, sep) ==
    IF parts = <<>> THEN <<>>
    ELSE IF Len(parts) = 1 THEN parts[1]
    ELSE parts[1] \o sep \o Join(Tail(parts), sep)

\* '<p class="main-definition">' and '</p>'
ParagraphHead == 
    <<60, 112, 32, 99, 108, 97, 115, 115, 61, 34, 109, 97, 105, 110, 45,
      100, 101, 102, 105, 110, 105, 116, 105, 111, 110, 34, 62>>

ParagraphTail == <<60, 47, 112, 62>>

\* link_words_in_text(sense, ...) if word_to_filename else sense
LinkedSense(sense, idx, cur) ==
    IF DOMAIN idx # {} THEN link_words_in_text(sense, idx, cur) ELSE sense

\* def_html_parts of one block
BlockParts(block, idx, cur) ==
    [k \in 1 .. Len(block.senses) |->
        ParagraphHead \o LinkedSense(block.senses[k], idx, cur) \o ParagraphTail]

\* parts["main_def_p"]
generate_definitions_html(definitions, idx, cur) ==
    LET blocks == [k \in 1 .. Len(definitions) |-> BlockParts(definitions[k], idx, cur)]
        kept == SelectSeq(blocks, LAMBDA b : b # <<>>)
    IN  Join([k \in 1 .. Len(kept) |-> Join(kept[k], <<10>>)], <<10>>)

build_entry_metadata(word, definitions, filename) ==
    LET senses == IF definitions # <<>> THEN definitions[1].senses ELSE <<>>
    IN  [word |-> word, slug |-> filename, grammar |-> <<>>,
         preview |-> IF senses # <<>> THEN senses[1] ELSE <<>>]

\* [w for w in word.split("/") if w], without the strip
IndexFormsUntrimmed(word) == SelectSeq(Split(word, 47), LAMBDA w : w # <<>>)

\* [w.strip() for w in word.split("/") if w.strip()]
IndexForms(word) ==
    LET pieces == Split(word, 47)
        trimmed == [k \in 1 .. Len(pieces) |-> Strip(pieces[k], Whitespace)]
    IN  SelectSeq(trimmed, LAMBDA w : w # <<>>)

\* TaskForms that keeps only the first form of an entry
TaskFormsFirstOnly(word) ==
    LET forms == SelectSeq(Split(word, 47), LAMBDA w : w # <<>>)
    IN  IF forms = <<>> THEN <<>> ELSE <<forms[1]>>

\* [w for w in word.split("/") if w]
TaskForms(word) == SelectSeq(Split(word, 47), LAMBDA w : w # <<>>)

\* word_to_filename[word] = filename
DictSet(d, key, value) == [k \in DOMAIN d \cup {key} |-> IF k = key THEN value ELSE d[k]]

\* the inner loop of the index construction over the forms of one entry
RECURSIVE RegisterFrom(_, _, _)
RegisterFrom(d, forms, k) ==
    IF k > Len(forms) THEN d
    ELSE IF forms[k] # <<>> /\ Len(forms[k]) >= 3
         THEN RegisterFrom(DictSet(d, forms[k], get_filename(forms[k])), forms, k + 1)
         ELSE RegisterFrom(d, forms, k + 1)

Registered(forms) ==
    LET kept == SelectSeq(forms, LAMBDA w : w # <<>> /\ Len(w) >= 3)
    IN  [k \in 1 .. Len(kept) |-> [word |-> kept[k], filename |-> get_filename(kept[k])]]

\* the bounded entry lists
QAAM == <<2392, 2366, 2350>>            \* U+0958 U+093E U+092E

WordStrings ==
    { KAAM,                                         \* KAAM
      <<32>> \o KAAM \o <<32>>,                     \* ' KAAM '
      KAAM \o <<47>> \o KO,                         \* 'KAAM/KO'
      KO,                                           \* 'KO'
      KAAMKO \o <<32, 47, 32>> \o KAAM,             \* 'KAAMKO / KAAM'
      QAAM \o <<47>> }                              \* 'QAAM/'

SenseTexts == { KAAM, KAAMKO \o <<32, 60, 32>> \o QAAM }

Entries ==
    { [word |-> w, definitions |-> <<[senses |-> <<t>>]>>] : w \in WordStrings, t \in SenseTexts }

MaxEntries == 2

InitPages ==
    /\ words_data \in UNION { [1 .. n -> Entries] : n \in 1 .. MaxEntries }
    /\ gpc = "index"
    /\ ei = 1
    /\ word_to_filename = <<>>
    /\ tasks = <<>>
    /\ metadata = <<>>
    /\ generated_links = <<>>
    /\ registrations = <<>>
    /\ text = <<>>
    /\ current_word = <<>>
    /\ run = 1
    /\ Fresh

LinkerVars == <<text, current_word, pc, escaped_text, matches, mi, words_to_link, word_list,
                wi, linked_text, linked_positions, result, run, origin, spans, decisions>>

\* one iteration of: for word_obj in words_data (the index loop)
RegisterEntry ==
    /\ gpc = "index"
    /\ ei <= Len(words_data)
    /\ LET words == IndexForms(words_data[ei].word)
       IN  /\ word_to_filename' = RegisterFrom(word_to_filename, words, 1)
           /\ registrations' = registrations \o Registered(words)
    /\ ei' = ei + 1
    /\ UNCHANGED <<LinkerVars, words_data, gpc, tasks, metadata, generated_links>>

\* IndexBuilt that leaves the index loop before the last entry is registered
IndexBuiltEarly ==
    /\ gpc = "index"
    /\ ei >= Len(words_data)
    /\ gpc' = "tasks"
    /\ ei' = 1
    /\ UNCHANGED <<LinkerVars, word_to_filename, words_data, tasks, metadata,
                   generated_links, registrations>>

\* the index loop is over; the task loop begins
IndexBuilt ==
    /\ gpc = "index"
    /\ ei > Len(words_data)
    /\ gpc' = "tasks"
    /\ ei' = 1
    /\ UNCHANGED <<LinkerVars, word_to_filename, words_data, tasks, metadata,
                   generated_links, registrations>>

\* one iteration of: for word_obj in words_data (the task loop)
CreateTasks ==
    /\ gpc = "tasks"
    /\ ei <= Len(words_data)
    /\ LET words == TaskForms(words_data[ei].word)
           defs == words_data[ei].definitions
       IN  /\ metadata' = metadata \o
                  [k \in 1 .. Len(words) |->
                      build_entry_metadata(words[k], defs, get_filename(words[k]))]
           /\ tasks' = tasks \o
                  [k \in 1 .. Len(words) |->
                      [word |-> words[k], filename |-> get_filename(words[k]),
                       definitions |-> defs, done |-> FALSE, main_def_p |-> <<>>,
                       senses |-> <<>>, stage |-> "created", index_read |-> <<>>]]
    /\ ei' = ei + 1
    /\ UNCHANGED <<LinkerVars, word_to_filename, words_data, gpc, generated_links,
                   registrations>>

\* the task loop is over; the tasks are awaited
TasksCreated ==
    /\ gpc = "tasks"
    /\ ei > Len(words_data)
    /\ gpc' = "await"
    /\ UNCHANGED <<LinkerVars, word_to_filename, words_data, ei, tasks, metadata,
                   generated_links, registrations>>

\* the senses of a task's definitions as they are rendered, with their sources
RenderedSenses(defs, idx, cur) ==
    Flatten([b \in 1 .. Len(defs) |->
        [k \in 1 .. Len(defs[b].senses) |->
            [sense |-> defs[b].senses[k],
             linked_sense |-> LinkedSense(defs[b].senses[k], idx, cur)]]])

MAX_CONCURRENT_FILES == 1000

\* the permits of the semaphore held by page tasks
Held == Cardinality({ t \in 1 .. Len(tasks) : tasks[t].stage \in {"rendered", "written"} })

\* the index loop run over a whole entry list
RECURSIVE BuildIndex(_, _, _)
BuildIndex(d, data, e) ==
    IF e > Len(data) THEN d
    ELSE BuildIndex(RegisterFrom(d, IndexForms(data[e].word), 1), data, e + 1)

\* generate_single_word_page of one task, from the start to its first suspension:
\* the semaphore is taken and generate_definitions_html runs on the shared index
RunTask(t) ==
    /\ gpc = "await"
    /\ tasks[t].stage = "created"
    /\ Held < MAX_CONCURRENT_FILES
    /\ tasks' = [tasks EXCEPT
           ![t].stage = "rendered",
           ![t].index_read = word_to_filename,
           ![t].main_def_p =
               generate_definitions_html(tasks[t].definitions, word_to_filename, tasks[t].word),
           ![t].senses =
               RenderedSenses(tasks[t].definitions, word_to_filename, tasks[t].word)]
    /\ UNCHANGED <<LinkerVars, word_to_filename, words_data, gpc, ei, metadata,
                   generated_links, registrations>>

\* the page of a task is opened and written; the task is suspended meanwhile
WritePage(t) ==
    /\ gpc = "await"
    /\ tasks[t].stage = "rendered"
    /\ tasks' = [tasks EXCEPT ![t].stage = "written"]
    /\ UNCHANGED <<LinkerVars, word_to_filename, words_data, gpc, ei, metadata,
                   generated_links, registrations>>

\* the task gives the semaphore back and returns (word, filename); as_completed
\* hands the result to generate_word_pages
CompleteTask(t) ==
    /\ gpc = "await"
    /\ tasks[t].stage = "written"
    /\ tasks' = [tasks EXCEPT ![t].stage = "done", ![t].done = TRUE]
    /\ generated_links' = Append(generated_links, <<tasks[t].word, tasks[t].filename>>)
    /\ UNCHANGED <<LinkerVars, word_to_filename, words_data, gpc, ei, metadata, registrations>>

\* return generated_links, metadata
PagesDone ==
    /\ gpc = "await"
    /\ \A t \in 1 .. Len(tasks) : tasks[t].done
    /\ gpc' = "done"
    /\ UNCHANGED <<LinkerVars, word_to_filename, words_data, ei, tasks, metadata,
                   generated_links, registrations>>

NextPages ==
    \/ RegisterEntry
    \/ IndexBuilt
    \/ CreateTasks
    \/ TasksCreated
    \/ \E t \in 1 .. Len(tasks) : RunTask(t)
    \/ \E t \in 1 .. Len(tasks) : WritePage(t)
    \/ \E t \in 1 .. Len(tasks) : CompleteTask(t)
    \/ PagesDone

SpecPages == InitPages /\ [][NextPages]_vars

\* every slash-separated piece of every entry's word
AllPieces ==
    UNION { { Split(words_data[e].word, 47)[k] : k \in 1 .. Len(Split(words_data[e].word, 47)) } :
            e \in 1 .. Len(words_data) }

ExpectedKeys == { Strip(f, Whitespace) : f \in { g \in AllPieces : Len(Strip(g, Whitespace)) >= 3 } }

FirstRegistration(key) ==
    LET at == { k \in 1 .. Len(registrations) : registrations[k].word = key }
    IN  registrations[CHOOSE k \in at : \A j \in at : k <= j].filename

\* C9: once the index loop is over, the keys of word_to_filename are exactly the
\* trimmed, non-empty, slash-separated forms of length 3 or more, each key maps to
\* get_filename(key), and the value kept is the one of the key's first registration.
C9_IndexConstruction ==
    gpc \in {"tasks", "await", "done"} =>
        /\ DOMAIN word_to_filename = ExpectedKeys
        /\ \A key \in DOMAIN word_to_filename :
               /\ word_to_filename[key] = get_filename(key)
               /\ word_to_filename[key] = FirstRegistration(key)

C9_Witness ==
    /\ gpc = "done"
    /\ \E a, b \in 1 .. Len(registrations) : a # b /\ registrations[a].word = registrations[b].word
    /\ \E f \in AllPieces : f # <<>> /\ Strip(f, Whitespace) \notin DOMAIN word_to_filename
    /\ \E f \in AllPieces : Strip(f, Whitespace) # f /\ Strip(f, Whitespace) \in DOMAIN word_to_filename

\* C10: every sense placed in a paragraph is HTML-safe: without the anchors of the
\* linker it is html.escape(sense), for a populated and for an empty index.
C10_SensesEscaped ==
    \A t \in 1 .. Len(tasks) : \A k \in 1 .. Len(tasks[t].senses) :
        StripTags(tasks[t].senses[k].linked_sense, FALSE) = html_escape(tasks[t].senses[k].sense)

(***************************************************************************)
(* The application loop: rejected candidates                               *)
(***************************************************************************)
Rejected == { k \in 1 .. Len(decisions) : decisions[k].outcome # "link" }

\* C11: an iteration of the application loop whose candidate fails the re-validation,
\* the tag check, a boundary check or the overlap check leaves linked_text and
\* linked_positions as they were and moves on to the next candidate; the loop is left
\* only after the last candidate, and what is returned is the linked text, a string.
C11_SilentSkip ==
    [][/\ (pc = "apply" /\ wi <= Len(word_list)
            /\ Decision(linked_text, linked_positions, word_list[wi]).outcome # "link")
           => /\ linked_text' = linked_text
              /\ linked_positions' = linked_positions
              /\ wi' = wi + 1
              /\ pc' = "apply"
       /\ (pc = "apply" /\ pc' = "done")
           => /\ wi > Len(word_list)
              /\ Len(decisions) = Len(word_list)
              /\ result' = linked_text
              /\ result' \in Seq(Nat)]_vars

C11_Witness ==
    /\ pc = "done"
    /\ \E c \in Rejected :
           /\ decisions[c].outcome = "not_found"
           /\ \E k \in Linked : k > c
           /\ decisions[c + 1].text_was = decisions[c].text_was
           /\ decisions[c + 1].positions_were = decisions[c].positions_were

(***************************************************************************)
(* The index and the concurrent page tasks                                 *)
(***************************************************************************)
Rendered == { t \in 1 .. Len(tasks) : tasks[t].stage # "created" }

\* C12: no page task exists while the index is being built; once the index loop is
\* over no step changes word_to_filename; and every page task, in every interleaving,
\* renders with the index of the whole entry list.
C12_IndexFrozen ==
    /\ [](gpc = "index" => tasks = <<>>)
    /\ [](\A t \in Rendered : tasks[t].index_read = BuildIndex(<<>>, words_data, 1))
    /\ [][gpc # "index" => word_to_filename' = word_to_filename]_vars

C12_Witness ==
    /\ gpc = "await"
    /\ Len(words_data) = 2
    /\ DOMAIN word_to_filename # {}
    /\ \E a, b \in 1 .. Len(tasks) :
           /\ a < b
           /\ tasks[a].stage = "rendered"
           /\ tasks[b].stage = "written"
           /\ tasks[a].definitions # tasks[b].definitions
           /\ \E k \in 1 .. Len(tasks[a].senses) :
                  tasks[a].senses[k].linked_sense # html_escape(tasks[a].senses[k].sense)

(***************************************************************************)
(* The scan loop: the order of the strategies                              *)
(***************************************************************************)
\* the matches the scan loop has been through
Scanned == 1 .. Min(mi - 1, Len(matches))

CleanedOf(k) == CleanedWord(Slice(escaped_text, matches[k].start, matches[k].end))

\* the candidate survives the length and self-reference test
Survives(k) == Len(CleanedOf(k)) >= 3 /\ CleanedOf(k) # current_word

\* the entries of words_to_link recorded for match k
EntriesOf(k) ==
    { i \in 1 .. Len(words_to_link) :
        words_to_link[i].start >= matches[k].start /\ words_to_link[i].start < matches[k].end }

\* a known suffix whose removal from w leaves an index key of 3 or more characters
PrefixKeys(w) ==
    { SubSeq(w, 1, Len(w) - Len(known_suffixes[j])) : j \in
        { i \in 1 .. Len(known_suffixes) :
            /\ EndsWith(w, known_suffixes[i])
            /\ Len(w) - Len(known_suffixes[i]) >= 3
            /\ SubSeq(w, 1, Len(w) - Len(known_suffixes[i])) \in DOMAIN word_to_filename } }

\* C13: every scanned match has at most one entry in words_to_link; a surviving
\* candidate whose cleaned text is an index key is recorded on its whole cleaned span
\* to its own page and not as a root link, even when its root is a key too; only when
\* it is not a key is its root recorded, and only when neither resolves is a prefix.
C13_ResolutionOrder ==
    pc \in {"scan", "apply", "done"} =>
        \A k \in Scanned :
            LET cleaned == CleanedOf(k)
                root == find_root_word(cleaned)
                exact == cleaned \in DOMAIN word_to_filename
                byRoot == root # cleaned /\ root \in DOMAIN word_to_filename
                es == EntriesOf(k)
            IN  /\ Cardinality(es) <= 1
                /\ ~Survives(k) => es = {}
                /\ (Survives(k) /\ exact) =>
                       \E i \in es :
                           /\ words_to_link[i].word = cleaned
                           /\ words_to_link[i].end = words_to_link[i].start + Len(cleaned)
                           /\ words_to_link[i].filename = word_to_filename[cleaned]
                           /\ ~words_to_link[i].is_root_link
                /\ (Survives(k) /\ ~exact /\ byRoot) =>
                       \E i \in es :
                           /\ words_to_link[i].word = root
                           /\ words_to_link[i].filename = word_to_filename[root]
                           /\ words_to_link[i].is_root_link
                /\ (Survives(k) /\ ~exact /\ ~byRoot) =>
                       \A i \in es :
                           /\ Len(cleaned) > 4
                           /\ words_to_link[i].word \in PrefixKeys(cleaned)
                           /\ words_to_link[i].is_root_link

C13_Witness ==
    /\ pc = "done"
    /\ {KAAM, KAAMKO} \subseteq DOMAIN word_to_filename
    /\ \E k \in Scanned :
           /\ CleanedOf(k) = KAAMKO
           /\ find_root_word(KAAMKO) = KAAM
           /\ Survives(k)
           /\ \E i \in EntriesOf(k) : words_to_link[i].word = KAAMKO
    /\ \E d \in Linked : decisions[d].cand.word = KAAMKO

(***************************************************************************)
(* The application loop: the stored offsets                                *)
(***************************************************************************)
\* C14: the candidates are applied in strictly descending start offset, and when a
\* candidate is taken from word_list the current text up to its recorded end offset
\* is still the escaped text up to that offset (every earlier splice lies to its right).
C14_OffsetsValid ==
    /\ \A a, b \in 1 .. Len(word_list) : a < b => word_list[a].start > word_list[b].start
    /\ \A k \in 1 .. Len(decisions) :
           Slice(decisions[k].text_was, 0, decisions[k].cand.end)
               = Slice(escaped_text, 0, decisions[k].cand.end)

(***************************************************************************)
(* The application loop: the characters around an inserted anchor          *)
(***************************************************************************)
\* the text right after offset e begins with one of the known suffixes
SuffixFollows(lt, e) ==
    \E i \in 1 .. Len(known_suffixes) :
        Slice(lt, e, e + Len(known_suffixes[i])) = known_suffixes[i]

\* C15: when an anchor is inserted, the span starts the text or the character before
\* it is a boundary character, and the span ends the text or the character after it is
\* a boundary character, or, for a root or prefix link only, the text after the span
\* begins with a known suffix.
C15_BoundarySafe ==
    \A k \in Linked :
        LET lt == decisions[k].text_was
            s == decisions[k].start
            e == decisions[k].end
        IN  /\ s = 0 \/ At(lt, s - 1) \in boundary_chars
            /\ \/ e = Len(lt)
               \/ At(lt, e) \in boundary_chars
               \/ decisions[k].cand.is_root_link /\ SuffixFollows(lt, e)

C15_Witness ==
    /\ pc = "done"
    /\ \E k \in Linked :
           /\ decisions[k].cand.is_root_link
           /\ decisions[k].end < Len(decisions[k].text_was)
           /\ At(decisions[k].text_was, decisions[k].end) \notin boundary_chars
    /\ \E k \in Rejected :
           /\ decisions[k].outcome = "after"
           /\ ~decisions[k].cand.is_root_link
           /\ SuffixFollows(decisions[k].text_was, decisions[k].end)

(***************************************************************************)
(* link_words_in_text with the prefix fallback (strategy 3) taken out      *)
(***************************************************************************)
ResolutionWithoutPrefix(cleaned, idx) ==
    LET root == find_root_word(cleaned)
    IN  IF cleaned \in DOMAIN idx THEN [kind |-> "exact", word |-> cleaned]
        ELSE IF root # cleaned /\ root \in DOMAIN idx THEN [kind |-> "root", word |-> root]
        ELSE [kind |-> "none", word |-> <<>>]

ScanMatchWithoutPrefix(wtl, escaped, match, idx, cur) ==
    LET full_word == Slice(escaped, match.start, match.end)
        cleaned_word == CleanedWord(full_word)
        stripped_from_start == Len(full_word) - Len(LStrip(full_word, punctuation_chars))
        adjusted_start == match.start + stripped_from_start
        res == ResolutionWithoutPrefix(cleaned_word, idx)
    IN  IF Len(cleaned_word) < 3 \/ cleaned_word = cur THEN wtl
        ELSE IF res.kind = "exact"
             THEN SetKey(wtl, Entry(res.word, adjusted_start, idx[res.word], FALSE))
        ELSE IF res.kind = "root"
             THEN SetKeyIfAbsent(wtl, Entry(res.word, adjusted_start, idx[res.word], TRUE))
        ELSE wtl

RECURSIVE ScanFromWithoutPrefix(_, _, _, _, _, _)
ScanFromWithoutPrefix(wtl, escaped, ms, i, idx, cur) ==
    IF i > Len(ms) THEN wtl
    ELSE ScanFromWithoutPrefix(ScanMatchWithoutPrefix(wtl, escaped, ms[i], idx, cur),
                               escaped, ms, i + 1, idx, cur)

LinkedWithoutPrefix(t, idx, cur) ==
    IF t = <<>> \/ DOMAIN idx = {} THEN (IF t # <<>> THEN html_escape(t) ELSE t)
    ELSE LET escaped == html_escape(t)
             wtl == ScanFromWithoutPrefix(<<>>, escaped, all_matches(escaped), 1, idx, cur)
         IN  IF wtl = <<>> THEN escaped
             ELSE ApplyFrom([linked_text |-> escaped, linked_positions |-> <<>>],
                            WordList(wtl), 1).linked_text

\* the scanned matches for which strategies 1 and 2 failed and strategy 3 went through
\* the known suffixes
PrefixTried ==
    { k \in Scanned :
        /\ Survives(k)
        /\ Resolution(CleanedOf(k), word_to_filename).kind \notin {"exact", "root"}
        /\ Len(CleanedOf(k)) > 4 }

PageFilenames == { tasks[t].filename : t \in 1 .. Len(tasks) }

\* C17: once the task loop is over, every value of word_to_filename, that is every
\* href the linker can insert, is the filename of a page task of the same run: it is
\* get_filename(w) for a form w that generate_single_word_page is scheduled for.
C17_NoDanglingLinks ==
    gpc \in {"await", "done"} =>
        \A key \in DOMAIN word_to_filename :
            /\ word_to_filename[key] \in PageFilenames
            /\ \E t \in 1 .. Len(tasks) :
                   /\ word_to_filename[key] = get_filename(tasks[t].word)
                   /\ Strip(tasks[t].word, Whitespace) = key

C17_Witness ==
    /\ gpc = "done"
    /\ \E key \in DOMAIN word_to_filename :
           /\ key \notin { tasks[t].word : t \in 1 .. Len(tasks) }
           /\ \E t \in 1 .. Len(tasks) :
                  \E k \in 1 .. Len(tasks[t].senses) :
                      tasks[t].senses[k].linked_sense
                          = link_html(word_to_filename[key], key)

====
